---- MODULE Spec2Model ----
(***************************************************************************)
(* base-model-package: the three interface classes BaseModel,              *)
(* BasePreprocess and BasePostprocess.  The state is the three instances a *)
(* client makes (one per interface), the most recent invocation and the    *)
(* history of the calls with their outcomes.  Each method body is an       *)
(* operator from the objects and the bound arguments to the objects        *)
(* afterwards, the outcome (return or raise) and the further operations    *)
(* the body invokes.                                                       *)
(***************************************************************************)
EXTENDS Integers, Sequences, FiniteSets, TLC

VARIABLES model, pre, post, last, log

vars == <<model, pre, post, last, log>>

\* ------------------------------------------------------------------ bounds
\* Number of calls of the three operations in one behaviour.
MaxCalls == 4

\* ------------------------------------------------------------------ inputs
\* predict's default for sample_rate.
DefaultSampleRate == 16000

\* path_to_model: any str, the empty string included; nothing has to exist.
Paths == {"", "model.bin", "/no/such/dir/model.onnx"}

\* wave: list[float]; the samples are written as integers.
Waves == {<< >>, <<0>>, <<1, -1>>}

SampleRates == {0, 8000, DefaultSampleRate}

\* data: any
Datas == {[type |-> "NoneType", value |-> << >>],
          [type |-> "list", value |-> << <<"yes", 9>> >>]}

\* ----------------------------------------------------------------- classes
\* The classes of the package, and for each interface the downstream
\* subclasses: one that inherits the operation and, since an override is free
\* to do anything, one for each thing an override can do about the base
\* operation: return a result of its own, raise NotImplementedError itself,
\* or delegate to the base operation (super()) and let its outcome through.
ModelClasses == {"BaseModel", "InheritingModel", "ReturningModel", "RaisingModel",
                 "DelegatingModel"}
PreClasses == {"BasePreprocess", "InheritingPreprocess", "ReturningPreprocess",
               "RaisingPreprocess", "DelegatingPreprocess"}
PostClasses == {"BasePostprocess", "InheritingPostprocess", "ReturningPostprocess",
                "RaisingPostprocess", "DelegatingPostprocess"}

BaseClasses == {"BaseModel", "BasePreprocess", "BasePostprocess"}
ReturningClasses == {"ReturningModel", "ReturningPreprocess", "ReturningPostprocess"}
RaisingClasses == {"RaisingModel", "RaisingPreprocess", "RaisingPostprocess"}
DelegatingClasses == {"DelegatingModel", "DelegatingPreprocess", "DelegatingPostprocess"}
OverridingClasses == ReturningClasses \cup RaisingClasses \cup DelegatingClasses

Parent(cls) ==
    CASE cls \in ModelClasses \ {"BaseModel"} -> "BaseModel"
      [] cls \in PreClasses \ {"BasePreprocess"} -> "BasePreprocess"
      [] cls \in PostClasses \ {"BasePostprocess"} -> "BasePostprocess"
      [] OTHER -> "object"

\* The methods a class body defines itself.
Defines(cls) ==
    CASE cls = "BaseModel" -> {"__init__", "predict"}
      [] cls = "BasePreprocess" -> {"__init__", "process"}
      [] cls = "BasePostprocess" -> {"__init__", "process"}
      [] cls \in OverridingClasses \cap ModelClasses -> {"predict"}
      [] cls \in OverridingClasses \cap PreClasses -> {"process"}
      [] cls \in OverridingClasses \cap PostClasses -> {"process"}
      [] cls = "object" -> {"__init__"}
      [] OTHER -> {}

\* Method lookup: the first class on the way up that defines the name.
RECURSIVE Resolve(_, _)
Resolve(cls, name) ==
    IF name \in Defines(cls) \/ cls = "object" THEN cls
    ELSE Resolve(Parent(cls), name)

\* ---------------------------------------------------------------- outcomes
NotImplementedError == "NotImplementedError"

Raise(exc, msg) == [kind |-> "raise", exc |-> exc, msg |-> msg, value |-> "None"]
Return(v) == [kind |-> "return", exc |-> "", msg |-> "", value |-> v]

NoInstance == [cls |-> "NoInstance"]

NoCall == [op |-> "none"]

\* ----------------------------------------------------------- method bodies
\* The backquotes of the messages are written as apostrophes.
\* objs is the record of the three instances; self is objs.model for the
\* model interface, objs.pre and objs.post for the other two.

\* Variants of the bodies, each with one plausible slip, used to see that the
\* properties below depend on the bodies as written.
BaseModel_init_normalising(objs, path_to_model) ==
    [objs |-> [objs EXCEPT !.model = [cls |-> objs.model.cls,
                                      path |-> IF path_to_model = "" THEN "." ELSE path_to_model]],
     out |-> Return("None"),
     calls |-> << >>]

BaseModel_init(objs, path_to_model) ==
    [objs |-> [objs EXCEPT !.model = [cls |-> objs.model.cls, path |-> path_to_model]],
     out |-> Return("None"),
     calls |-> << >>]

BaseModel_predict_empty_wave(objs, wave, sample_rate) ==
    [objs |-> objs,
     out |-> IF wave = << >> THEN Return("[]")
             ELSE Raise(NotImplementedError, "Subclasses must implement the 'predict' method."),
     calls |-> << >>]

BaseModel_predict_lazy_load(objs, wave, sample_rate) ==
    IF objs.model.path = "<loaded>"
    THEN [objs |-> objs, out |-> Return("[]"), calls |-> << >>]
    ELSE [objs |-> [objs EXCEPT !.model.path = "<loaded>"],
          out |-> Raise(NotImplementedError, "Subclasses must implement the 'predict' method."),
          calls |-> << >>]

BaseModel_predict_reads_path(objs, wave, sample_rate) ==
    [objs |-> objs,
     out |-> IF objs.model.path = "" THEN Raise("FileNotFoundError", "")
             ELSE Raise(NotImplementedError, "Subclasses must implement the 'predict' method."),
     calls |-> << >>]

BaseModel_predict(objs, wave, sample_rate) ==
    [objs |-> objs,
     out |-> Raise(NotImplementedError, "Subclasses must implement the 'predict' method."),
     calls |-> << >>]

BasePreprocess_init(objs) ==
    [objs |-> objs, out |-> Return("None"), calls |-> << >>]

BasePreprocess_process_pass(objs, wave) ==
    [objs |-> objs, out |-> Return("None"), calls |-> << >>]

BasePreprocess_process_exact_type(objs, wave) ==
    [objs |-> objs,
     out |-> IF objs.pre.cls = "BasePreprocess"
             THEN Raise(NotImplementedError, "Subclasses must implement the 'process' method.")
             ELSE Return("None"),
     calls |-> << >>]

BasePreprocess_process_shared(objs, wave) ==
    [objs |-> [objs EXCEPT !.post = NoInstance],
     out |-> Raise(NotImplementedError, "Subclasses must implement the 'process' method."),
     calls |-> <<"post.process">>]

BasePreprocess_process(objs, wave) ==
    [objs |-> objs,
     out |-> Raise(NotImplementedError, "Subclasses must implement the 'process' method."),
     calls |-> << >>]

BasePostprocess_init(objs) ==
    [objs |-> objs, out |-> Return("None"), calls |-> << >>]

BasePostprocess_process_identity(objs, data) ==
    [objs |-> objs, out |-> Return("data"), calls |-> << >>]

\* raise NotImplemented(...): the constant is not callable
BasePostprocess_process_not_callable(objs, data) ==
    [objs |-> objs,
     out |-> Raise("TypeError", "'NotImplementedType' object is not callable"),
     calls |-> << >>]

BasePostprocess_process(objs, data) ==
    [objs |-> objs,
     out |-> Raise(NotImplementedError, "Subclasses must implement the 'process' method."),
     calls |-> << >>]

\* A downstream override of operation op in class cls; base is what the base
\* operation does on the same objects and arguments, used if the override
\* delegates to it.
Override_body(objs, cls, op, base) ==
    CASE cls \in ReturningClasses ->
           [objs |-> objs, out |-> Return("result of " \o cls), calls |-> << >>]
      [] cls \in RaisingClasses ->
           [objs |-> objs, out |-> Raise(NotImplementedError, cls \o " is not ready"),
            calls |-> << >>]
      [] cls \in DelegatingClasses ->
           [objs |-> base.objs, out |-> base.out, calls |-> <<op>> \o base.calls]

\* ------------------------------------------------------------ the dispatch
\* predict(wave, sample_rate=16000): bind the arguments, look the method up
\* in the class of the instance and run the body found.
BindSampleRate(args) ==
    IF "sample_rate" \in DOMAIN args THEN args.sample_rate ELSE DefaultSampleRate

Objs == [model |-> model, pre |-> pre, post |-> post]

Dispatch_predict(objs, args) ==
    IF Resolve(objs.model.cls, "predict") = "BaseModel"
    THEN BaseModel_predict(objs, args.wave, BindSampleRate(args))
    ELSE Override_body(objs, objs.model.cls, "predict",
                       BaseModel_predict(objs, args.wave, BindSampleRate(args)))

Dispatch_pre_process(objs, args) ==
    IF Resolve(objs.pre.cls, "process") = "BasePreprocess"
    THEN BasePreprocess_process(objs, args.wave)
    ELSE Override_body(objs, objs.pre.cls, "pre.process",
                       BasePreprocess_process(objs, args.wave))

Dispatch_post_process(objs, args) ==
    IF Resolve(objs.post.cls, "process") = "BasePostprocess"
    THEN BasePostprocess_process(objs, args.data)
    ELSE Override_body(objs, objs.post.cls, "post.process",
                       BasePostprocess_process(objs, args.data))

\* One invocation: the objects become what the body left, and the
\* invocation is recorded with the class of the receiver, the body that ran,
\* the arguments, the outcome and the operations the body invoked.
Invoke(op, cls, body, args, r) ==
    /\ model' = r.objs.model
    /\ pre' = r.objs.pre
    /\ post' = r.objs.post
    /\ last' = [op |-> op, cls |-> cls, body |-> body, args |-> args,
                out |-> r.out, calls |-> r.calls]

\* A call of one of the three operations also enters the history of calls.
Call(op, cls, body, args, r) ==
    /\ Len(log) < MaxCalls
    /\ Invoke(op, cls, body, args, r)
    /\ log' = Append(log, [op |-> op, cls |-> cls, out |-> r.out, calls |-> r.calls])

\* ----------------------------------------------------------------- actions
Init ==
    /\ model = NoInstance
    /\ pre = NoInstance
    /\ post = NoInstance
    /\ last = NoCall
    /\ log = << >>

\* cls(path_to_model) for BaseModel or a subclass of it.
NewModel(cls, p) ==
    /\ model = NoInstance
    /\ Resolve(cls, "__init__") = "BaseModel"
    /\ Invoke("BaseModel.__init__", cls, Resolve(cls, "__init__"), [path_to_model |-> p],
              BaseModel_init([Objs EXCEPT !.model = [cls |-> cls]], p))
    /\ UNCHANGED log

\* cls() for BasePreprocess or a subclass of it.
NewPreprocess(cls) ==
    /\ pre = NoInstance
    /\ Resolve(cls, "__init__") = "BasePreprocess"
    /\ Invoke("BasePreprocess.__init__", cls, Resolve(cls, "__init__"), [n |-> 0],
              BasePreprocess_init([Objs EXCEPT !.pre = [cls |-> cls]]))
    /\ UNCHANGED log

\* cls() for BasePostprocess or a subclass of it.
NewPostprocess(cls) ==
    /\ post = NoInstance
    /\ Resolve(cls, "__init__") = "BasePostprocess"
    /\ Invoke("BasePostprocess.__init__", cls, Resolve(cls, "__init__"), [n |-> 0],
              BasePostprocess_init([Objs EXCEPT !.post = [cls |-> cls]]))
    /\ UNCHANGED log

\* m.predict(wave, sample_rate)
Predict(wave, sample_rate) ==
    /\ model # NoInstance
    /\ LET args == [wave |-> wave, sample_rate |-> sample_rate]
       IN Call("predict", model.cls, Resolve(model.cls, "predict"), args,
               Dispatch_predict(Objs, args))

\* m.predict(wave)
PredictDefault(wave) ==
    /\ model # NoInstance
    /\ LET args == [wave |-> wave]
       IN Call("predict", model.cls, Resolve(model.cls, "predict"), args,
               Dispatch_predict(Objs, args))

\* p.process(wave) on a preprocessor
PreProcess(wave) ==
    /\ pre # NoInstance
    /\ LET args == [wave |-> wave]
       IN Call("pre.process", pre.cls, Resolve(pre.cls, "process"), args,
               Dispatch_pre_process(Objs, args))

\* p.process(data) on a postprocessor
PostProcess(data) ==
    /\ post # NoInstance
    /\ LET args == [data |-> data]
       IN Call("post.process", post.cls, Resolve(post.cls, "process"), args,
               Dispatch_post_process(Objs, args))

Next ==
    \/ \E cls \in ModelClasses, p \in Paths : NewModel(cls, p)
    \/ \E cls \in PreClasses : NewPreprocess(cls)
    \/ \E cls \in PostClasses : NewPostprocess(cls)
    \/ \E w \in Waves, sr \in SampleRates : Predict(w, sr)
    \/ \E w \in Waves : PredictDefault(w)
    \/ \E w \in Waves : PreProcess(w)
    \/ \E d \in Datas : PostProcess(d)

Spec == Init /\ [][Next]_vars

\* -------------------------------------------------------------- properties
Operations == {"predict", "pre.process", "post.process"}
InheritingClasses == {"InheritingModel", "InheritingPreprocess", "InheritingPostprocess"}

NotImplemented(out) == out.kind = "raise" /\ out.exc = NotImplementedError

\* The step is a call of one of the three operations.
CallStep == log' # log

BaseEntries == {i \in DOMAIN log : log[i].cls \in BaseClasses}

\* C1: predict on a BaseModel instance raises NotImplementedError and returns
\* nothing, whatever the wave, the sample rate (given or left to its default)
\* and the path the instance was made with.
C1_PredictAlwaysFails ==
    (last.op = "predict" /\ last.cls = "BaseModel")
        => /\ last.out.kind # "return"
           /\ NotImplemented(last.out)

C1_Witness ==
    /\ last.op = "predict" /\ last.cls = "BaseModel"
    /\ "sample_rate" \notin DOMAIN last.args
    /\ last.args.wave = << >>
    /\ model.path = ""
    /\ NotImplemented(last.out)

\* C2: process on a BasePreprocess instance raises NotImplementedError and
\* returns nothing, whatever the wave.
C2_PreprocessAlwaysFails ==
    (last.op = "pre.process" /\ last.cls = "BasePreprocess")
        => /\ last.out.kind # "return"
           /\ NotImplemented(last.out)

C2_Witness ==
    /\ last.op = "pre.process" /\ last.cls = "BasePreprocess"
    /\ last.args.wave = <<1, -1>>
    /\ NotImplemented(last.out)

\* C3: process on a BasePostprocess instance raises NotImplementedError and
\* returns nothing, whatever the data.
C3_PostprocessAlwaysFails ==
    (last.op = "post.process" /\ last.cls = "BasePostprocess")
        => /\ last.out.kind # "return"
           /\ NotImplemented(last.out)

C3_Witness ==
    /\ last.op = "post.process" /\ last.cls = "BasePostprocess"
    /\ last.args.data.type = "NoneType"
    /\ NotImplemented(last.out)

\* C4: over the whole history of calls on base instances there is one error
\* kind, NotImplementedError: every such call raised, all raised the same
\* kind, and none returned or raised anything else.
C4_OneErrorKind ==
    /\ \A i \in BaseEntries : log[i].out.kind = "raise"
    /\ \A i, j \in BaseEntries : log[i].out.exc = log[j].out.exc
    /\ {log[i].out.exc : i \in BaseEntries} \subseteq {NotImplementedError}

C4_Witness ==
    /\ {log[i].op : i \in BaseEntries} = Operations
    /\ {log[i].out.exc : i \in BaseEntries} = {NotImplementedError}

\* C5: constructing a BaseModel with path_to_model = p returns normally and
\* leaves path equal to p, for every string p, the empty one included.
C5_ConstructStoresPath ==
    (last.op = "BaseModel.__init__" /\ last.cls = "BaseModel")
        => /\ last.out = Return("None")
           /\ model.cls = "BaseModel"
           /\ model.path = last.args.path_to_model

C5_Witness ==
    /\ last.op = "BaseModel.__init__" /\ last.cls = "BaseModel"
    /\ last.args.path_to_model = ""
    /\ model.path = ""
    /\ last.out.kind = "return"

\* C6: no recovery: when every earlier call on a base instance has failed,
\* the next call of any of the three operations on a base instance fails with
\* NotImplementedError too, however many calls went before.
C6_NoRecovery ==
    [][(/\ CallStep
        /\ last'.cls \in BaseClasses
        /\ \A i \in BaseEntries : NotImplemented(log[i].out))
          => NotImplemented(last'.out)]_vars

C6_Witness ==
    /\ Len(log) >= 3
    /\ \A i \in DOMAIN log : log[i].cls \in BaseClasses /\ NotImplemented(log[i].out)
    /\ \E i, j \in DOMAIN log : i < j /\ log[i].op = log[j].op

\* The base body ran in the call c (looked up directly, or invoked by the
\* override), and the failure of the call is the one the base body raises.
BaseBodyRan(c) == c.cls \in BaseClasses \cup InheritingClasses \/ c.calls # << >>
BaseFailureRaised(c) == BaseBodyRan(c) /\ NotImplemented(c.out)

\* C7 as stated: an instance of a subclass that does not override the
\* operation fails with NotImplementedError, and for an instance of a subclass
\* that overrides it the override runs and the base failure is not raised.
C7_AsStated ==
    /\ (last.op \in Operations /\ last.cls \in InheritingClasses)
          => NotImplemented(last.out)
    /\ (last.op \in Operations /\ last.cls \in OverridingClasses)
          => last.body = last.cls /\ ~BaseFailureRaised(last)

\* C7, amended: an instance of a subclass that does not override the
\* operation runs the base body and fails with NotImplementedError; for an
\* instance of a subclass that overrides it the override is the body looked
\* up, and the base failure is raised exactly when the override invokes the
\* base operation and lets its outcome through: an override that does not
\* delegate never raises the base failure, one that delegates always does.
\* For each of the three operations, in the last call and in every call of
\* the history.
C7_Subclasses ==
    /\ (last.op \in Operations /\ last.cls \in InheritingClasses)
          => last.body \in BaseClasses /\ NotImplemented(last.out)
    /\ (last.op \in Operations /\ last.cls \in OverridingClasses)
          => /\ last.body = last.cls
             /\ BaseFailureRaised(last) <=> (last.calls = <<last.op>>)
             /\ last.cls \in DelegatingClasses => BaseFailureRaised(last)
             /\ last.cls \notin DelegatingClasses => ~BaseFailureRaised(last)
    /\ \A i \in DOMAIN log :
          /\ log[i].cls \in InheritingClasses => NotImplemented(log[i].out)
          /\ log[i].cls \in OverridingClasses
                => (BaseFailureRaised(log[i]) <=> log[i].cls \in DelegatingClasses)

C7_Witness ==
    /\ \E i \in DOMAIN log : log[i].cls \in InheritingClasses /\ NotImplemented(log[i].out)
    /\ \E i \in DOMAIN log : log[i].cls \in DelegatingClasses /\ BaseFailureRaised(log[i])
    /\ \E i \in DOMAIN log : log[i].cls \in ReturningClasses /\ log[i].out.kind = "return"
    /\ {log[i].op : i \in DOMAIN log} = Operations

\* C8: a call of BaseModel.predict leaves the instance, its path included, as
\* it was, and its outcome is the one it has for every other path.
C8_PredictKeepsPath ==
    [][(CallStep /\ last'.op = "predict" /\ last'.body = "BaseModel")
          => /\ model' = model
             /\ model'.path = model.path
             /\ \A p \in Paths :
                   BaseModel_predict([Objs EXCEPT !.model.path = p], last'.args.wave,
                                     BindSampleRate(last'.args)).out = last'.out]_vars

C8_Witness ==
    /\ Len(log) >= 2
    /\ \A i \in DOMAIN log : log[i].op = "predict" /\ log[i].cls = "BaseModel"
    /\ model.path = "model.bin"

\* C9: the interfaces do not interact: a call invokes no other operation and
\* leaves the other instances as they were, and in every history the outcome
\* of a call is decided by the operation and the class of its receiver alone.
C9_NoInteraction ==
    /\ [][CallStep
            => /\ last'.body \in BaseClasses => last'.calls = << >>
               /\ \A k \in DOMAIN last'.calls : last'.calls[k] = last'.op
               /\ (last'.op = "predict" => pre' = pre /\ post' = post)
               /\ (last'.op = "pre.process" => model' = model /\ post' = post)
               /\ (last'.op = "post.process" => model' = model /\ pre' = pre)]_vars
    /\ [](\A i, j \in DOMAIN log :
             (log[i].op = log[j].op /\ log[i].cls = log[j].cls) => log[i].out = log[j].out)

C9_Witness ==
    /\ Len(log) = 4
    /\ log[1].op = "pre.process" /\ log[2].op = "predict"
    /\ log[3].op = "post.process" /\ log[4].op = "pre.process"
    /\ model # NoInstance /\ pre # NoInstance /\ post # NoInstance

====
